---------------------------- MODULE Spec2Model ----------------------------
(***************************************************************************)
(* Model of the fraud-detection pipeline:                                  *)
(*   - the Airflow DAG automatic_fraud_detection                           *)
(*       (src/airflow/dags/fraud_detection_dag_v2.py):                     *)
(*       fetch_transaction -> prepare_payload -> predict_fraud ->          *)
(*       store_in_neon, run once per scheduler tick, runs may overlap;     *)
(*   - the interactive client (src/client_realtime.py): main,              *)
(*       get_expected_columns, single_prediction, prepare_data.            *)
(*                                                                         *)
(* Values.  A JSON / Python scalar is a record [k, n, m, s]:               *)
(*   k = "absent"  the key is not in the mapping                           *)
(*   k = "null"    None                                                    *)
(*   k = "int"     the integer n                  (|n| < 2^31)             *)
(*   k = "big"     the integer n * 10^9 + m, 0 <= m < 10^9, used for the   *)
(*                 integers that do not fit 31 bits (millisecond stamps,   *)
(*                 card numbers); Python integers are unbounded, so no     *)
(*                 wrap-around is modelled                                 *)
(*   k = "float"   the float n / 10^4 (fixed point, four decimals)         *)
(*   k = "str"     the text s (never the text of a number)                 *)
(*   k = "dtstr"   the text strftime("%Y-%m-%d %H:%M:%S") gives for the    *)
(*                 timestamp held in n, m (s tells int or big)             *)
(* A mapping (raw transaction, payload) is a function from FieldNames to   *)
(* values; a key that is not in the mapping has the value Absent.          *)
(***************************************************************************)
EXTENDS Integers, Sequences, FiniteSets, TLC

Absent == [k |-> "absent", n |-> 0, m |-> 0, s |-> ""]
Null == [k |-> "null", n |-> 0, m |-> 0, s |-> ""]
IntV(i) == [k |-> "int", n |-> i, m |-> 0, s |-> ""]
BigV(hi, lo) == [k |-> "big", n |-> hi, m |-> lo, s |-> ""]
FloatV(u) == [k |-> "float", n |-> u, m |-> 0, s |-> ""]
StrV(t) == [k |-> "str", n |-> 0, m |-> 0, s |-> t]

Limb == 10^9
FloatUnit == 10^4

Range(q) == {q[i] : i \in 1..Len(q)}

\* `key in mapping`
Has(mapping, key) == mapping[key].k # "absent"

\* ------------------------------------------------------------------------
\* Configuration of the DAG module
\* ------------------------------------------------------------------------

\* The DAG module defines JEDHA_API, HF_SPACE_API, NEON_DB_URI and DEFAULTS
\* and no HEALTH_URL: the name prepare_payload reads is unbound, and reading
\* it raises NameError inside the try block.
DagHealthUrlDefined == FALSE

FieldNames ==
    {"cc_num", "amt", "zip", "lat", "long", "city_pop", "unix_time",
     "merch_lat", "merch_long", "trans_date_trans_time", "merchant",
     "category", "first", "last", "gender", "street", "city", "state",
     "job", "dob", "trans_num", "current_time", "is_fraud"}

EmptyMapping == [f \in FieldNames |-> Absent]

\* DEFAULTS (the DAG) and defaults (the client) are the same table.
DEFAULTS ==
    [f \in FieldNames |->
        CASE f = "amt" -> FloatV(1000000)
          [] f = "cc_num" -> BigV(4000000, 2)
          [] f = "zip" -> IntV(12345)
          [] f = "city_pop" -> IntV(50000)
          [] f = "lat" -> FloatV(407128)
          [] f = "long" -> FloatV(-740060)
          [] f = "merch_lat" -> FloatV(407128)
          [] f = "merch_long" -> FloatV(-740060)
          [] f = "first" -> StrV("John")
          [] f = "last" -> StrV("Doe")
          [] f = "gender" -> StrV("M")
          [] f = "street" -> StrV("123 Main St")
          [] f = "city" -> StrV("Anytown")
          [] f = "state" -> StrV("NY")
          [] f = "job" -> StrV("Engineer")
          [] f = "dob" -> StrV("1990-01-01")
          [] f = "merchant" -> StrV("Generic Store")
          [] f = "category" -> StrV("misc_pos")
          [] f = "trans_date_trans_time" -> StrV("2020-06-15 12:00:00")
          [] f = "unix_time" -> IntV(1592222400)
          [] OTHER -> Absent]

\* The except branch of prepare_payload.
FallbackSchema ==
    <<"cc_num", "amt", "zip", "lat", "long", "city_pop", "unix_time",
      "merch_lat", "merch_long", "trans_date_trans_time", "merchant",
      "category", "first", "last", "gender", "street", "city", "state",
      "job", "dob", "trans_num">>

\* raw_ms > 1_640_995_200_000, the cutoff in limbs of 10^9
CutoffHi == 1640
CutoffLo == 995200000
training_start == 1577836800
year_seconds == 31536000
\* year_seconds = YearKilo * 1000
YearKilo == year_seconds \div 1000

\* ------------------------------------------------------------------------
\* Arithmetic on values
\* ------------------------------------------------------------------------
IsNumber(v) == v.k \in {"int", "big", "float"}

\* the limbs of an integer value
HiOf(v) == IF v.k = "big" THEN v.n ELSE v.n \div Limb
LoOf(v) == IF v.k = "big" THEN v.m ELSE v.n % Limb

\* v > 1_640_995_200_000 for a number v (a float of the model is below 2^31)
AfterCutoff(v) ==
    /\ v.k \in {"int", "big"}
    /\ \/ HiOf(v) > CutoffHi
       \/ HiOf(v) = CutoffHi /\ LoOf(v) > CutoffLo

\* v // 1000 as an integer, for an integer v whose quotient fits 31 bits
SecondsOf(v) == IF v.k = "big" THEN v.n * 1000000 + (v.m \div 1000)
                ELSE v.n \div 1000

\* v // 1000 as a value (floor division keeps a float a float)
FloorDiv1000(v) ==
    IF v.k = "float" THEN FloatV((v.n \div (1000 * FloatUnit)) * FloatUnit)
    ELSE IntV(SecondsOf(v))

\* v % 31_536_000 for an integer v: with v = sec * 1000 + ms and
\* 31_536_000 = 31_536 * 1000, v % 31_536_000 = (sec % 31_536) * 1000 + ms
ModYear(v) == (SecondsOf(v) % YearKilo) * 1000 + (LoOf(v) % 1000)

\* datetime.fromtimestamp(v).strftime(...): [ok, text]; TypeError for None
\* and text, ValueError/OverflowError/OSError beyond 9999-12-31 23:59:59
\* (253402300799) and, in UTC, before 0001-01-02 00:00:00 (-62135510400):
\* fromtimestamp refuses the first day of year 1 too
FormatTimestamp(v) ==
    CASE v.k = "int" ->
           [ok |-> TRUE, text |-> [k |-> "dtstr", n |-> v.n, m |-> 0, s |-> "int"]]
      [] v.k = "float" ->
           [ok |-> TRUE,
            text |-> [k |-> "dtstr", n |-> v.n \div FloatUnit, m |-> 0, s |-> "int"]]
      [] v.k = "big" ->
           IF /\ v.n < 253 \/ (v.n = 253 /\ v.m <= 402300799)
              /\ v.n > -63 \/ (v.n = -63 /\ v.m >= 864489600)
           THEN [ok |-> TRUE,
                 text |-> [k |-> "dtstr", n |-> v.n, m |-> v.m, s |-> "big"]]
           ELSE [ok |-> FALSE, text |-> Null]
      [] OTHER -> [ok |-> FALSE, text |-> Null]

\* ------------------------------------------------------------------------
\* Schema discovery
\* ------------------------------------------------------------------------
\* A reply of the /health endpoint: ok = FALSE is a timeout, a connection
\* error or a bad status; has_numeric / has_categorical tell whether the key
\* is in the JSON body.
HealthReply(ok, hn, hc, num, cat) ==
    [ok |-> ok, has_numeric |-> hn, has_categorical |-> hc,
     numeric |-> num, categorical |-> cat]

\* prepare_payload, the try/except at its head: [failed, columns]
dag_expected_columns(health) ==
    IF DagHealthUrlDefined /\ health.ok
    THEN [failed |-> FALSE,
          columns |-> (IF health.has_numeric THEN health.numeric ELSE <<>>)
                      \o (IF health.has_categorical THEN health.categorical ELSE <<>>)]
    ELSE [failed |-> TRUE, columns |-> FallbackSchema]

\* get_expected_columns of the client: [none, columns]; none = TRUE is the
\* None it returns on any exception (a missing key is a KeyError)
get_expected_columns(health) ==
    IF health.ok /\ health.has_numeric /\ health.has_categorical
    THEN [none |-> FALSE, columns |-> health.numeric \o health.categorical]
    ELSE [none |-> TRUE, columns |-> <<>>]

\* ------------------------------------------------------------------------
\* Alignment
\* ------------------------------------------------------------------------
\* The timestamp normalisation of prepare_payload: [ok, tx]; ok = FALSE is
\* the TypeError of comparing None or a text with an integer.
dag_fix_timestamp(transaction, expected_columns) ==
    IF Has(transaction, "current_time") /\ "unix_time" \in Range(expected_columns)
    THEN LET raw_ms == transaction["current_time"] IN
         IF ~IsNumber(raw_ms) THEN [ok |-> FALSE, tx |-> transaction]
         ELSE IF AfterCutoff(raw_ms)
         THEN [ok |-> TRUE,
               tx |-> [transaction EXCEPT !["unix_time"] =
                          IntV(training_start + (SecondsOf(raw_ms) % year_seconds))]]
         ELSE [ok |-> TRUE,
               tx |-> [transaction EXCEPT !["unix_time"] = FloorDiv1000(raw_ms)]]
    ELSE [ok |-> TRUE, tx |-> transaction]

\* The timestamp fix of prepare_data (the client): the rescaled value is
\* training_range_start + raw_timestamp % training_range_size, the raw
\* millisecond value taken modulo the year in seconds.
client_fix_timestamp(transaction, expected_columns) ==
    IF Has(transaction, "current_time") /\ "unix_time" \in Range(expected_columns)
    THEN LET raw_timestamp == transaction["current_time"] IN
         IF ~IsNumber(raw_timestamp) THEN [ok |-> FALSE, tx |-> transaction]
         ELSE IF AfterCutoff(raw_timestamp)
         THEN [ok |-> TRUE,
               tx |-> [transaction EXCEPT !["unix_time"] =
                          IntV(training_start + ModYear(raw_timestamp))]]
         ELSE [ok |-> TRUE,
               tx |-> [transaction EXCEPT !["unix_time"] = FloorDiv1000(raw_timestamp)]]
    ELSE [ok |-> TRUE, tx |-> transaction]

\* The derived datetime string (the same in the DAG and in the client): any
\* exception of the conversion gives the literal default.
derive_datetime(transaction, expected_columns) ==
    IF Has(transaction, "unix_time")
       /\ "trans_date_trans_time" \in Range(expected_columns)
    THEN LET dt == FormatTimestamp(transaction["unix_time"]) IN
         [transaction EXCEPT !["trans_date_trans_time"] =
             IF dt.ok THEN dt.text ELSE DEFAULTS["trans_date_trans_time"]]
    ELSE transaction

\* A variant of resolve_column with a defect: `col in transaction` alone
\* decides, a null of the record goes into the payload.
resolve_column_keeps_null(transaction, col, t) ==
    IF Has(transaction, col) THEN transaction[col]
    ELSE IF Has(DEFAULTS, col) THEN DEFAULTS[col]
    ELSE IF col = "trans_num" THEN StrV("default_" \o ToString(t))
    ELSE IntV(0)

\* One turn of `for col in expected_columns`; t is int(time.time())
resolve_column(transaction, col, t) ==
    IF Has(transaction, col) /\ transaction[col].k # "null" THEN transaction[col]
    ELSE IF Has(DEFAULTS, col) THEN DEFAULTS[col]
    ELSE IF col = "trans_num" THEN StrV("default_" \o ToString(t))
    ELSE IntV(0)

\* The loop that builds the payload
build_payload(transaction, expected_columns, t) ==
    [f \in FieldNames |->
        IF f \in Range(expected_columns) THEN resolve_column(transaction, f, t)
        ELSE Absent]

\* prepare_payload (the DAG task): [ok, failed_health, columns, payload]
prepare_payload(transaction, health, t) ==
    LET disc == dag_expected_columns(health)
        fixed == dag_fix_timestamp(transaction, disc.columns)
    IN  IF ~fixed.ok
        THEN [ok |-> FALSE, failed_health |-> disc.failed,
              columns |-> disc.columns, payload |-> EmptyMapping]
        ELSE [ok |-> TRUE, failed_health |-> disc.failed,
              columns |-> disc.columns,
              payload |-> build_payload(derive_datetime(fixed.tx, disc.columns),
                                        disc.columns, t)]

\* prepare_data (the client): [ok, payload, tx]; tx is the caller's dict,
\* which prepare_data changes in place
prepare_data(transaction, expected_columns, t) ==
    LET fixed == client_fix_timestamp(transaction, expected_columns)
        derived == derive_datetime(fixed.tx, expected_columns)
    IN  IF ~fixed.ok
        THEN [ok |-> FALSE, payload |-> EmptyMapping, tx |-> transaction]
        ELSE [ok |-> TRUE,
              payload |-> build_payload(derived, expected_columns, t),
              tx |-> derived]

\* ------------------------------------------------------------------------
\* Python conversions used by predict_fraud and store_in_neon
\* ------------------------------------------------------------------------
\* float(v): [ok, val] with val in units of 1/FloatUnit; TypeError for None,
\* ValueError for a text that is no number (the model hands it no integer
\* beyond 31 bits, whose float the fixed point cannot hold)
ToFloat(v) ==
    CASE v.k = "float" -> [ok |-> TRUE, val |-> v.n]
      [] v.k = "int" -> [ok |-> TRUE, val |-> v.n * FloatUnit]
      [] OTHER -> [ok |-> FALSE, val |-> 0]

\* int(v): truncation toward zero for a float
ToInt(v) ==
    CASE v.k = "int" -> [ok |-> TRUE, val |-> v.n]
      [] v.k = "float" ->
           [ok |-> TRUE,
            val |-> IF v.n >= 0 THEN v.n \div FloatUnit
                    ELSE -((-v.n) \div FloatUnit)]
      [] OTHER -> [ok |-> FALSE, val |-> 0]

\* bool(v), as `or` tests it
Truthy(v) ==
    CASE v.k \in {"absent", "null"} -> FALSE
      [] v.k \in {"int", "float"} -> v.n # 0
      [] v.k = "str" -> v.s # ""
      [] OTHER -> TRUE

\* str(v) for the values a merchant field takes
PyStr(v) ==
    CASE v.k = "str" -> v.s
      [] v.k = "null" -> "None"
      [] v.k = "int" -> ToString(v.n)
      [] OTHER -> "?"

\* mapping.get(key, default)
Get(mapping, key, default) == IF Has(mapping, key) THEN mapping[key] ELSE default

\* ------------------------------------------------------------------------
\* fetch_transaction, predict_fraud
\* ------------------------------------------------------------------------
\* A reply of the feed: status "ok" or "error" (timeout, bad status); body
\* "plain" (the JSON object), "quoted" (the same object inside a JSON
\* string), "no_table" (JSON without data/columns) or "garbage"; rows are
\* the records of the table.
FeedReply(status, body, rows) == [status |-> status, body |-> body, rows |-> rows]

\* the text s has the character c
HasChar(s, c) == \E i \in 1..Len(s) : SubSeq(s, i, i) = c

\* What json.loads reads for a text of a "quoted" body: the body is a JSON
\* string holding the JSON of the table, so every escape of the inner JSON
\* is escaped once more; strip('"').replace('\\"', '"') undoes that for the
\* quotes only, and a backslash comes out doubled, a newline, a tab, a
\* carriage return or a form feed as the two characters of its escape.
\* (The other characters JSON writes as an escape, the backspace, the
\* remaining control characters and, with ensure_ascii, the characters
\* beyond ASCII, come out as the text of their escape in the same way;
\* a string of this module cannot hold them, and they are not among the
\* inputs.)
RECURSIVE EscapesKept(_)
EscapesKept(s) ==
    IF s = "" THEN ""
    ELSE LET c == SubSeq(s, 1, 1) IN
         (CASE c = "\\" -> "\\\\"
            [] c = "\n" -> "\\n"
            [] c = "\t" -> "\\t"
            [] c = "\r" -> "\\r"
            [] c = "\f" -> "\\f"
            [] OTHER -> c) \o EscapesKept(SubSeq(s, 2, Len(s)))

\* r.text.strip().strip('"').replace('\\"', '"'), then json.loads, seen from
\* one text value of the table: [ok, text]. The replacement is applied to
\* a plain body too: there it turns the escaped quote of a value into a
\* bare one, and the backslash that ends a value into the escape of the
\* closing quote; json.loads raises (a value made of JSON syntax itself,
\* which could parse as other fields, is not among the inputs).
dag_body_text(body, s) ==
    IF HasChar(s, "\"") THEN [ok |-> FALSE, text |-> s]
    ELSE IF body = "quoted" THEN [ok |-> TRUE, text |-> EscapesKept(s)]
    ELSE IF s # "" /\ SubSeq(s, Len(s), Len(s)) = "\\" THEN [ok |-> FALSE, text |-> s]
    ELSE [ok |-> TRUE, text |-> s]

\* the record json.loads gives for the row of a body
dag_body_row(body, row) ==
    [f \in FieldNames |->
        IF row[f].k = "str" THEN StrV(dag_body_text(body, row[f].s).text)
        ELSE row[f]]

\* fetch_transaction (the DAG task): [ok, tx]; an empty table makes
\* df.iloc[0] raise IndexError, a text of any row that the replacement
\* breaks makes json.loads raise
fetch_transaction(reply) ==
    IF /\ reply.status = "ok" /\ reply.body \in {"plain", "quoted"}
       /\ Len(reply.rows) > 0
       /\ \A i \in 1..Len(reply.rows) : \A f \in FieldNames :
             reply.rows[i][f].k = "str"
                => dag_body_text(reply.body, reply.rows[i][f].s).ok
    THEN [ok |-> TRUE, tx |-> dag_body_row(reply.body, reply.rows[1])]
    ELSE [ok |-> FALSE, tx |-> EmptyMapping]

\* A reply of the scorer: [status, probability, prediction]
ScoreReply(status, probability, prediction) ==
    [status |-> status, probability |-> probability, prediction |-> prediction]

\* predict_fraud (the DAG task): [ok, probability, prediction];
\* float(pred.get("probability", 0.0)), int(pred.get("prediction", 0))
predict_fraud(reply) ==
    LET prob == ToFloat(IF reply.probability.k = "absent" THEN FloatV(0)
                        ELSE reply.probability)
        label == ToInt(IF reply.prediction.k = "absent" THEN IntV(0)
                       ELSE reply.prediction)
    IN  IF reply.status = "ok" /\ prob.ok /\ label.ok
        THEN [ok |-> TRUE, probability |-> prob.val, prediction |-> label.val]
        ELSE [ok |-> FALSE, probability |-> 0, prediction |-> 0]

\* ------------------------------------------------------------------------
\* store_in_neon
\* ------------------------------------------------------------------------
\* str(...)[:255]
MerchantCap == 255
\* if float(pred.get("probability", 0.0)) > 0.001, in units of 1/FloatUnit
AlertThreshold == 10
\* default_args["retries"]
retries == 1

NoWrite ==
    [ok |-> FALSE, transaction_id |-> Null, amount |-> 0, merchant |-> "",
     fraud_probability |-> 0, prediction |-> 0]

\* The parameter tuple of the INSERT; t is int(datetime.now().timestamp()).
\* store_in_neon receives tx_dict, the output of fetch_transaction.
store_args(transaction, pred, t) ==
    LET tid == Get(transaction, "trans_num", Null)
        amt == ToFloat(Get(transaction, "amt", IntV(0)))
        name == PyStr(Get(transaction, "merchant", StrV("Unknown")))
    IN  IF ~amt.ok THEN NoWrite
        ELSE [ok |-> TRUE,
              transaction_id |-> IF Truthy(tid) THEN tid
                                 ELSE StrV("tx_" \o ToString(t)),
              amount |-> amt.val,
              merchant |-> IF Len(name) > MerchantCap
                           THEN SubSeq(name, 1, MerchantCap) ELSE name,
              fraud_probability |-> pred.probability,
              prediction |-> pred.prediction]

HasRow(rows, tid) == \E i \in 1..Len(rows) : rows[i].transaction_id = tid

NewRow(w, t) ==
    [transaction_id |-> w.transaction_id,
     amount |-> w.amount,
     merchant |-> w.merchant,
     fraud_probability |-> w.fraud_probability,
     prediction |-> w.prediction,
     inserted_at |-> IntV(t),
     updated_at |-> Null]

\* Variants of the upsert with a defect, used to test the properties below:
\* a plain INSERT (no ON CONFLICT clause, no unique index)
upsert_plain_insert(rows, w, t) == Append(rows, NewRow(w, t))

\* ON CONFLICT DO NOTHING: the first write of an identifier stays
upsert_do_nothing(rows, w, t) ==
    IF HasRow(rows, w.transaction_id) THEN rows ELSE Append(rows, NewRow(w, t))

\* the conflicting row is replaced by a fresh one (delete, then insert)
upsert_replace(rows, w, t) ==
    IF HasRow(rows, w.transaction_id)
    THEN [i \in 1..Len(rows) |->
            IF rows[i].transaction_id = w.transaction_id THEN NewRow(w, t)
            ELSE rows[i]]
    ELSE Append(rows, NewRow(w, t))

\* the update of a conflict reaches every row (no restriction to the key)
upsert_update_all(rows, w, t) ==
    IF HasRow(rows, w.transaction_id)
    THEN [i \in 1..Len(rows) |->
            [rows[i] EXCEPT !.amount = w.amount,
                            !.merchant = w.merchant,
                            !.fraud_probability = w.fraud_probability,
                            !.prediction = w.prediction,
                            !.updated_at = IntV(t)]]
    ELSE Append(rows, NewRow(w, t))

\* INSERT ... ON CONFLICT (transaction_id) DO UPDATE SET ..., applied to the
\* rows of fraud_transactions; t is NOW(), the start of the transaction
upsert(rows, w, t) ==
    IF HasRow(rows, w.transaction_id)
    THEN [i \in 1..Len(rows) |->
            IF rows[i].transaction_id = w.transaction_id
            THEN [rows[i] EXCEPT !.amount = w.amount,
                                 !.merchant = w.merchant,
                                 !.fraud_probability = w.fraud_probability,
                                 !.prediction = w.prediction,
                                 !.updated_at = IntV(t)]
            ELSE rows[i]]
    ELSE Append(rows, NewRow(w, t))

\* the alert fires at the threshold too
should_alert_at_threshold(p) == p.probability >= AlertThreshold

\* if float(pred.get("probability", 0.0)) > 0.001
should_alert(p) == p.probability > AlertThreshold

\* ------------------------------------------------------------------------
\* Bounds and the inputs the environment draws from
\* ------------------------------------------------------------------------
\* overlapping runs of the DAG
NumRuns == 2
\* seconds of wall-clock time that pass
MaxClock == 1

Runs == 1..NumRuns

Record(tid, amt, merchant, current_time) ==
    [EmptyMapping EXCEPT !["trans_num"] = tid, !["amt"] = amt,
                         !["merchant"] = merchant,
                         !["current_time"] = current_time,
                         !["category"] = StrV("grocery_pos"),
                         !["is_fraud"] = IntV(0)]

\* 250.0 at Acme, identified tx_42, stamped 1_700_000_000_000 ms
TxAcme == Record(StrV("tx_42"), FloatV(2500000), StrV("Acme"), BigV(1700, 0))
\* the same identifier delivered with another amount and merchant
TxZed == Record(StrV("tx_42"), IntV(99), StrV("Zed"), BigV(1600, 0))
\* another transaction
TxBolt == Record(StrV("tx_7"), FloatV(125000), StrV("Bolt"), BigV(1700, 1))
\* a record without identifier
TxAnon == Record(Absent, FloatV(2500000), StrV("Acme"), Absent)
\* a record whose amount is null
TxNullAmt == Record(StrV("tx_42"), Null, StrV("Acme"), BigV(1700, 0))

\* merchants with a double quote in the name, and with a backslash, a
\* carriage return and a form feed
TxQuote == Record(StrV("tx_7"), FloatV(125000), StrV("Joe \"The\" Shop"), BigV(1700, 1))
TxSlash == Record(StrV("tx_7"), FloatV(125000), StrV("A\\B\rC\fD"), BigV(1700, 1))

FeedRecords == {TxAcme, TxZed, TxBolt, TxAnon, TxNullAmt}

FeedReplies ==
    {FeedReply("ok", "plain", <<t>>) : t \in FeedRecords}
    \cup {FeedReply("ok", "quoted", <<TxAcme, TxBolt>>),
          FeedReply("ok", "plain", <<TxQuote>>),
          FeedReply("ok", "quoted", <<TxSlash, TxBolt>>),
          FeedReply("ok", "plain", <<TxAcme, TxQuote>>),
          FeedReply("ok", "plain", <<>>),
          FeedReply("ok", "no_table", <<>>),
          FeedReply("ok", "garbage", <<>>),
          FeedReply("error", "plain", <<>>)}

HealthReplies ==
    {HealthReply(FALSE, FALSE, FALSE, <<>>, <<>>),
     HealthReply(TRUE, TRUE, TRUE, <<"amt">>, <<"merchant">>),
     HealthReply(TRUE, TRUE, TRUE, <<"amt", "unix_time">>,
                 <<"merchant", "trans_date_trans_time", "trans_num">>),
     HealthReply(TRUE, TRUE, FALSE, <<"amt", "is_fraud">>, <<>>)}

\* probabilities 0.001, 0.002 and 1.7; a null probability with label 1; a
\* JSON object without any key; an error
ScoreReplies ==
    {ScoreReply("ok", FloatV(10), IntV(0)),
     ScoreReply("ok", FloatV(20), IntV(0)),
     ScoreReply("ok", FloatV(17000), IntV(1)),
     ScoreReply("ok", Null, IntV(1)),
     ScoreReply("ok", Absent, Absent),
     ScoreReply("error", Absent, Absent)}

\* the record {"amt": 250.0, "merchant": "Acme", "trans_num": "tx_42"}
TxPlain ==
    [EmptyMapping EXCEPT !["amt"] = FloatV(2500000), !["merchant"] = StrV("Acme"),
                         !["trans_num"] = StrV("tx_42")]

\* a record without identifier, amount and merchant
TxBare == Record(Absent, Absent, Absent, BigV(1700, 1))

\* The feeds a pipeline may be connected to, by name, each with the replies
\* it may give: any reply; TxPlain alone; records that lack fields
Feeds ==
    [any |-> FeedReplies,
     plain |-> {FeedReply("ok", "plain", <<TxPlain>>)},
     sparse |-> {FeedReply("ok", "plain", <<TxAnon>>),
                 FeedReply("ok", "plain", <<TxBare>>)}]

\* The services: the name of the feed, and what /health and the scorer may
\* answer to a call.
Endpoints(feed, health, score) == [feed |-> feed, health |-> health, score |-> score]

\* any reply at any call
AnyReply == Endpoints("any", HealthReplies, ScoreReplies)

\* ------------------------------------------------------------------------
\* State
\* ------------------------------------------------------------------------
VARIABLES
    now,        \* wall-clock time in seconds, also NOW() of the database
    pc,         \* pc[r]: the position of run r in the DAG
    tries,      \* tries[r]: failed attempts of the task run r is at
    tx,         \* tx[r]: the XCom of fetch_transaction (tx_dict)
    payload,    \* payload[r]: the XCom of prepare_payload (prepared)
    pred,       \* pred[r]: the XCom of predict_fraud (pred_out)
    txn,        \* txn[r]: the open database transaction of run r
    lock,       \* the run holding the ACCESS EXCLUSIVE lock of the table, or 0
    table,      \* the committed rows of fraud_transactions
    db_ready,   \* the table, its audit columns and its unique index exist
    alerted,    \* alerted[r]: run r logged FRAUD ALERT
    commitLog,  \* history: the writes in the order of their commits
    \* one call of the align step (specification SpecAlign)
    al_raw,     \* the raw transaction handed to the align step
    al_health,  \* the reply of /health prepare_payload gets
    al_schema,  \* the expected_columns handed to prepare_data
    al_dag,     \* what prepare_payload returned
    al_cli,     \* what prepare_data returned
    \* the interactive client (specification SpecClient)
    c_pc,           \* the position of main
    c_health,       \* history: the reply get_expected_columns got
    expected_cols,  \* main's expected_cols; <<>> stands for None too
    c_left,         \* predictions left to run in the current menu choice
    c_tx,           \* single_prediction's transaction
    c_payload,      \* single_prediction's payload
    c_result,       \* single_prediction's result
    c_shown,        \* what display_result printed last
    c_error,        \* the error the last single_prediction printed, or "none"
    \* the services the pipeline calls
    env             \* the feed at JEDHA_API, the replies /health and HF_SPACE_API give

dagVars == <<now, pc, tries, tx, payload, pred, txn, lock, table, db_ready,
             alerted, commitLog>>

alignVars == <<al_raw, al_health, al_schema, al_dag, al_cli>>

clientVars == <<c_pc, c_health, expected_cols, c_left, c_tx, c_payload, c_result,
                c_shown, c_error>>

vars == <<dagVars, alignVars, clientVars, env>>

\* no XCom of predict_fraud yet
NoPred == [probability |-> -1, prediction |-> -1]
NoTxn == [active |-> FALSE, start |-> 0, write |-> NoWrite]

DagInit ==
    /\ now = 0
    /\ pc = [r \in Runs |-> "idle"]
    /\ tries = [r \in Runs |-> 0]
    /\ tx = [r \in Runs |-> EmptyMapping]
    /\ payload = [r \in Runs |-> EmptyMapping]
    /\ pred = [r \in Runs |-> NoPred]
    /\ txn = [r \in Runs |-> NoTxn]
    /\ lock = 0
    /\ table = <<>>
    /\ db_ready = FALSE
    /\ alerted = [r \in Runs |-> FALSE]
    /\ commitLog = <<>>

\* The task of a position: the steps of store_in_neon are one task.
TaskStart(p) ==
    IF p \in {"store", "alter", "execute", "commit", "alert"} THEN "store" ELSE p

\* A task of run r raised: the connection of store_in_neon is dropped without
\* commit (rollback, locks released); Airflow runs the task again while it
\* has retries left, else the run has failed and the downstream tasks are
\* not run.
TaskFails(r) ==
    /\ txn' = [txn EXCEPT ![r] = NoTxn]
    /\ lock' = IF lock = r THEN 0 ELSE lock
    /\ IF tries[r] < retries
       THEN /\ pc' = [pc EXCEPT ![r] = TaskStart(pc[r])]
            /\ tries' = [tries EXCEPT ![r] = tries[r] + 1]
       ELSE /\ pc' = [pc EXCEPT ![r] = "failed"]
            /\ tries' = [tries EXCEPT ![r] = 0]

\* The task of run r returned: the next task starts with its own retries.
TaskDone(r, next) ==
    /\ pc' = [pc EXCEPT ![r] = next]
    /\ tries' = [tries EXCEPT ![r] = 0]

\* The scheduler starts the runs in the order of their ticks.
Start(r) ==
    /\ UNCHANGED <<alignVars, clientVars, env>>
    /\ pc[r] = "idle"
    /\ IF r = 1 THEN TRUE ELSE pc[r - 1] # "idle"
    /\ pc' = [pc EXCEPT ![r] = "fetch"]
    /\ UNCHANGED <<now, tries, tx, payload, pred, txn, lock, table, db_ready,
                   alerted, commitLog>>

Fetch(r) ==
    /\ UNCHANGED <<alignVars, clientVars, env>>
    /\ pc[r] = "fetch"
    /\ \E reply \in Feeds[env.feed] :
         LET res == fetch_transaction(reply) IN
         IF res.ok
         THEN /\ tx' = [tx EXCEPT ![r] = res.tx]
              /\ TaskDone(r, "prepare")
              /\ UNCHANGED <<txn, lock>>
         ELSE /\ TaskFails(r)
              /\ UNCHANGED tx
    /\ UNCHANGED <<now, payload, pred, table, db_ready, alerted, commitLog>>

Prepare(r) ==
    /\ UNCHANGED <<alignVars, clientVars, env>>
    /\ pc[r] = "prepare"
    /\ \E health \in env.health :
         LET res == prepare_payload(tx[r], health, now) IN
         IF res.ok
         THEN /\ payload' = [payload EXCEPT ![r] = res.payload]
              /\ TaskDone(r, "predict")
              /\ UNCHANGED <<txn, lock>>
         ELSE /\ TaskFails(r)
              /\ UNCHANGED payload
    /\ UNCHANGED <<now, tx, pred, table, db_ready, alerted, commitLog>>

Predict(r) ==
    /\ UNCHANGED <<alignVars, clientVars, env>>
    /\ pc[r] = "predict"
    /\ \E reply \in env.score :
         LET res == predict_fraud(reply) IN
         IF res.ok
         THEN /\ pred' = [pred EXCEPT ![r] =
                            [probability |-> res.probability,
                             prediction |-> res.prediction]]
              /\ TaskDone(r, "store")
              /\ UNCHANGED <<txn, lock>>
         ELSE /\ TaskFails(r)
              /\ UNCHANGED pred
    /\ UNCHANGED <<now, tx, payload, table, db_ready, alerted, commitLog>>

\* store_in_neon, connect and CREATE TABLE IF NOT EXISTS: the first
\* statement starts the transaction and fixes its NOW(); no lock of the
\* table is held yet. (CREATE TABLE of a table that another open
\* transaction has just created fails once that transaction commits: one
\* of the failures of TaskCrash.)
StoreBegin(r) ==
    /\ UNCHANGED <<alignVars, clientVars, env>>
    /\ pc[r] = "store"
    /\ txn' = [txn EXCEPT ![r] = [active |-> TRUE, start |-> now, write |-> NoWrite]]
    /\ pc' = [pc EXCEPT ![r] = "alter"]
    /\ UNCHANGED <<now, tries, tx, payload, pred, lock, table, db_ready, alerted,
                   commitLog>>

\* store_in_neon, ALTER TABLE and CREATE UNIQUE INDEX: ALTER TABLE waits for
\* the table's ACCESS EXCLUSIVE lock and holds it to the end of the
\* transaction.
StoreAlter(r) ==
    /\ UNCHANGED <<alignVars, clientVars, env>>
    /\ pc[r] = "alter"
    /\ lock = 0
    /\ lock' = r
    /\ pc' = [pc EXCEPT ![r] = "execute"]
    /\ UNCHANGED <<now, tries, tx, payload, pred, txn, table, db_ready, alerted,
                   commitLog>>

\* A variant of StoreExecute with a defect: the connection is in autocommit
\* mode, so the INSERT is durable as soon as it is executed.
StoreExecuteAutocommit(r) ==
    /\ UNCHANGED <<alignVars, clientVars, env>>
    /\ pc[r] = "execute"
    /\ LET w == store_args(tx[r], pred[r], now) IN
       IF w.ok
       THEN /\ txn' = [txn EXCEPT ![r].write = w]
            /\ table' = upsert(table, w, txn[r].start)
            /\ pc' = [pc EXCEPT ![r] = "commit"]
            /\ UNCHANGED <<tries, lock>>
       ELSE /\ TaskFails(r)
            /\ UNCHANGED table
    /\ UNCHANGED <<now, tx, payload, pred, db_ready, alerted, commitLog>>

\* store_in_neon, the INSERT: the parameters are computed (float(None)
\* raises) and the statement is executed inside the open transaction.
StoreExecute(r) ==
    /\ UNCHANGED <<alignVars, clientVars, env>>
    /\ pc[r] = "execute"
    /\ LET w == store_args(tx[r], pred[r], now) IN
       IF w.ok
       THEN /\ txn' = [txn EXCEPT ![r].write = w]
            /\ pc' = [pc EXCEPT ![r] = "commit"]
            /\ UNCHANGED <<tries, lock>>
       ELSE TaskFails(r)
    /\ UNCHANGED <<now, tx, payload, pred, table, db_ready, alerted, commitLog>>

\* store_in_neon, conn.commit(): the DDL and the upsert become durable.
StoreCommit(r) ==
    /\ UNCHANGED <<alignVars, clientVars, env>>
    /\ pc[r] = "commit"
    /\ table' = upsert(table, txn[r].write, txn[r].start)
    /\ db_ready' = TRUE
    /\ commitLog' = Append(commitLog,
                           [run |-> r, write |-> txn[r].write, at |-> txn[r].start])
    /\ txn' = [txn EXCEPT ![r] = NoTxn]
    /\ lock' = 0
    /\ pc' = [pc EXCEPT ![r] = "alert"]
    /\ UNCHANGED <<now, tries, tx, payload, pred, alerted>>

\* store_in_neon after the commit: close, then the alert.
StoreAlert(r) ==
    /\ UNCHANGED <<alignVars, clientVars, env>>
    /\ pc[r] = "alert"
    /\ alerted' = [alerted EXCEPT ![r] = alerted[r] \/ should_alert(pred[r])]
    /\ TaskDone(r, "done")
    /\ UNCHANGED <<now, tx, payload, pred, txn, lock, table, db_ready, commitLog>>

\* A task is ended from outside (timeout, lost connection, killed worker).
TaskCrash(r) ==
    /\ UNCHANGED <<alignVars, clientVars, env>>
    /\ pc[r] \in {"fetch", "prepare", "predict", "store", "alter", "execute", "commit",
                 "alert"}
    /\ TaskFails(r)
    /\ UNCHANGED <<now, tx, payload, pred, table, db_ready, alerted, commitLog>>

Tick ==
    /\ now < MaxClock
    /\ now' = now + 1
    /\ UNCHANGED <<pc, tries, tx, payload, pred, txn, lock, table, db_ready,
                   alerted, commitLog>>
    /\ UNCHANGED <<alignVars, clientVars, env>>

DagNext ==
    \/ \E r \in Runs :
         \/ Start(r) \/ Fetch(r) \/ Prepare(r) \/ Predict(r)
         \/ StoreBegin(r) \/ StoreAlter(r) \/ StoreExecute(r) \/ StoreCommit(r)
         \/ StoreAlert(r)
         \/ TaskCrash(r)
    \/ Tick

\* ------------------------------------------------------------------------
\* One call of the align step on a drawn input
\* ------------------------------------------------------------------------
NotCalled == [called |-> FALSE, ok |-> FALSE, columns |-> <<>>, payload |-> EmptyMapping]

\* Raw transactions of every shape the feed can deliver
AlignRaws ==
    {EmptyMapping, TxAcme, TxZed, TxBolt, TxAnon, TxNullAmt,
     \* stamped exactly at the cutoff, and one millisecond after it
     Record(StrV("tx_1"), IntV(5), StrV("Acme"), BigV(CutoffHi, CutoffLo)),
     Record(StrV("tx_1"), IntV(5), StrV("Acme"), BigV(CutoffHi, CutoffLo + 1)),
     \* 1_700_000_000_123 and 5_000 milliseconds
     Record(StrV("tx_1"), IntV(5), StrV("Acme"), BigV(1700, 123)),
     Record(StrV("tx_1"), IntV(5), StrV("Acme"), IntV(5000)),
     \* current_time null, and current_time a text
     Record(StrV("tx_1"), IntV(5), StrV("Acme"), Null),
     Record(StrV("tx_1"), IntV(5), StrV("Acme"), StrV("2024-01-01")),
     \* every field null but the stamp
     Record(Null, Null, Null, BigV(1700, 0)),
     \* the record brings its own unix_time and trans_date_trans_time
     [TxAcme EXCEPT !["unix_time"] = IntV(1600000000),
                    !["trans_date_trans_time"] = StrV("2019-01-01 00:00:00")],
     [TxAnon EXCEPT !["unix_time"] = IntV(1600000000),
                    !["trans_date_trans_time"] = StrV("2019-01-01 00:00:00")],
     \* unix_time null, and unix_time in milliseconds (beyond year 9999)
     [TxAnon EXCEPT !["unix_time"] = Null],
     [TxAnon EXCEPT !["unix_time"] = BigV(1700, 0)],
     \* unix_time -62135510400 (0001-01-02 00:00:00) and one second less
     [TxAnon EXCEPT !["unix_time"] = BigV(-63, 864489600)],
     [TxAnon EXCEPT !["unix_time"] = BigV(-63, 864489599)]}

Schemas ==
    {FallbackSchema,
     <<"amt", "merchant">>,
     <<"amt", "unix_time", "merchant", "trans_date_trans_time", "trans_num">>,
     <<"unix_time">>,
     <<"trans_date_trans_time", "is_fraud">>,
     <<"amt", "is_fraud", "amt">>}

\* for i in range(5)
MonitorCount == 5

ClientNoResult ==
    [probability |-> Absent, prediction |-> Absent, amount |-> Absent,
     merchant |-> Absent]

ClientInit ==
    /\ c_pc = "start"
    /\ c_health = HealthReply(FALSE, FALSE, FALSE, <<>>, <<>>)
    /\ expected_cols = <<>>
    /\ c_left = 0
    /\ c_tx = EmptyMapping
    /\ c_payload = EmptyMapping
    /\ c_result = ClientNoResult
    /\ c_shown = "nothing"
    /\ c_error = "none"

AlignInit ==
    /\ DagInit
    /\ ClientInit
    /\ env = AnyReply
    /\ al_raw \in AlignRaws
    /\ al_health \in HealthReplies
    /\ al_schema \in Schemas
    /\ al_dag = NotCalled
    /\ al_cli = NotCalled

\* prepare_payload(transaction) is called
AlignDag ==
    /\ ~al_dag.called
    /\ LET res == prepare_payload(al_raw, al_health, now) IN
       al_dag' = [called |-> TRUE, ok |-> res.ok, columns |-> res.columns,
                  payload |-> res.payload]
    /\ UNCHANGED <<dagVars, clientVars, env, al_raw, al_health, al_schema, al_cli>>

\* prepare_data(transaction, expected_columns) is called
AlignClient ==
    /\ ~al_cli.called
    /\ LET res == prepare_data(al_raw, al_schema, now) IN
       al_cli' = [called |-> TRUE, ok |-> res.ok, columns |-> al_schema,
                  payload |-> res.payload]
    /\ UNCHANGED <<dagVars, clientVars, env, al_raw, al_health, al_schema, al_dag>>

AlignNext == AlignDag \/ AlignClient \/ Tick

SpecAlign == AlignInit /\ [][AlignNext]_vars

\* ------------------------------------------------------------------------
\* The interactive client: main, single_prediction, display_result
\* ------------------------------------------------------------------------
ClientDagUnchanged ==
    UNCHANGED <<pc, tries, tx, payload, pred, txn, lock, table, db_ready,
                alerted, commitLog, alignVars, env>>

\* fetch_transaction of the client: on any exception it prints "Error
\* fetching transaction" and returns None
client_fetch_transaction(reply) ==
    IF reply.status = "ok" /\ reply.body \in {"plain", "quoted"}
       /\ Len(reply.rows) > 0
    THEN [none |-> FALSE, tx |-> reply.rows[1]]
    ELSE [none |-> TRUE, tx |-> EmptyMapping]

\* predict_fraud of the client: the JSON body as it is; on any exception it
\* prints "Prediction error" and returns None
client_predict_fraud(reply) ==
    IF reply.status = "ok"
    THEN [none |-> FALSE, probability |-> reply.probability,
          prediction |-> reply.prediction]
    ELSE [none |-> TRUE, probability |-> Absent, prediction |-> Absent]

\* `if result:` for the JSON object predict_fraud returned: an object
\* without any key is falsy
ResultTruthy(res) == res.probability.k # "absent" \/ res.prediction.k # "absent"

\* v > thr for a number v and a threshold below 1, thr in units of
\* 1/FloatUnit: an integer is above it when it is 1 or more
AboveFraction(v, thr) ==
    CASE v.k = "float" -> v.n > thr
      [] v.k = "int" -> v.n >= 1
      [] OTHER -> v.n > 0 \/ (v.n = 0 /\ v.m >= 1)

\* display_result: [ok, status], status the status line it printed
\* ("nothing" when it printed none); a result without any key is falsy
\* and `if not result: return` prints nothing; ok = FALSE is an exception: the
\* TypeError of comparing a probability that is no number, raised before
\* anything is printed, or, when prediction == 1 has settled the status, the
\* TypeError/ValueError of formatting such a probability with .6f, raised
\* after the status line is out
display_result(result) ==
    LET prediction == Get(result, "prediction", IntV(0))
        probability == Get(result, "probability", IntV(0))
        one == ToFloat(prediction)
    IN  IF \A key \in DOMAIN result : result[key].k = "absent"
        THEN [ok |-> TRUE, status |-> "nothing"]
        ELSE IF one.ok /\ one.val = FloatUnit
        THEN [ok |-> IsNumber(probability), status |-> "FRAUD DETECTED"]
        ELSE IF ~IsNumber(probability) THEN [ok |-> FALSE, status |-> "nothing"]
        ELSE IF AboveFraction(probability, 5000)
        THEN [ok |-> TRUE, status |-> "FRAUD DETECTED"]
        ELSE IF AboveFraction(probability, 100)
        THEN [ok |-> TRUE, status |-> "HIGH RISK"]
        ELSE IF AboveFraction(probability, 10)
        THEN [ok |-> TRUE, status |-> "MEDIUM RISK"]
        ELSE [ok |-> TRUE, status |-> "LOW RISK"]

\* main, the health check: without expected columns the client prints
\* "Model unavailable" and returns.
ClientHealth ==
    /\ c_pc = "start"
    /\ \E health \in env.health :
         LET cols == get_expected_columns(health) IN
         /\ c_health' = health
         /\ IF cols.none \/ cols.columns = <<>>
            THEN /\ c_pc' = "unavailable"
                 /\ UNCHANGED expected_cols
            ELSE /\ c_pc' = "menu"
                 /\ expected_cols' = cols.columns
    /\ UNCHANGED <<now, c_left, c_tx, c_payload, c_result, c_shown, c_error>>
    /\ ClientDagUnchanged

\* main, the menu
ClientChoose ==
    /\ c_pc = "menu"
    /\ \E choice \in {"0", "1", "2", "other"} :
         CASE choice = "0" -> c_pc' = "exit" /\ UNCHANGED c_left
           [] choice = "1" -> c_pc' = "fetch" /\ c_left' = 1
           [] choice = "2" -> c_pc' = "fetch" /\ c_left' = MonitorCount
           [] OTHER -> UNCHANGED <<c_pc, c_left>>
    /\ UNCHANGED <<now, c_health, expected_cols, c_tx, c_payload, c_result, c_shown,
                   c_error>>
    /\ ClientDagUnchanged

\* single_prediction returned to main: the next turn of the loop, or the menu
ClientReturns ==
    /\ c_left' = c_left - 1
    /\ c_pc' = IF c_left > 1 THEN "fetch" ELSE "menu"

\* single_prediction, fetch_transaction: `if not transaction: return None`
ClientFetch ==
    /\ c_pc = "fetch"
    /\ \E reply \in Feeds[env.feed] :
         LET res == client_fetch_transaction(reply) IN
         /\ c_error' = IF res.none THEN "Error fetching transaction" ELSE "none"
         /\ IF res.none \/ res.tx = EmptyMapping
            THEN /\ ClientReturns
                 /\ UNCHANGED c_tx
            ELSE /\ c_tx' = res.tx
                 /\ c_pc' = "prepare"
                 /\ UNCHANGED c_left
    /\ UNCHANGED <<now, c_health, expected_cols, c_payload, c_result, c_shown>>
    /\ ClientDagUnchanged

\* single_prediction, prepare_data: it changes transaction in place; its
\* TypeError is caught nowhere and ends the program.
ClientPrepare ==
    /\ c_pc = "prepare"
    /\ LET res == prepare_data(c_tx, expected_cols, now) IN
       IF res.ok
       THEN /\ c_payload' = res.payload
            /\ c_tx' = res.tx
            /\ c_pc' = "predict"
       ELSE /\ c_pc' = "crashed"
            /\ UNCHANGED <<c_payload, c_tx>>
    /\ UNCHANGED <<now, c_health, expected_cols, c_left, c_result, c_shown, c_error>>
    /\ ClientDagUnchanged

\* single_prediction, predict_fraud and the result it returns: None when
\* predict_fraud returned None or an empty object
ClientPredict ==
    /\ c_pc = "predict"
    /\ \E reply \in env.score :
         LET res == client_predict_fraud(reply) IN
         /\ c_error' = IF res.none THEN "Prediction error" ELSE c_error
         /\ IF res.none \/ ~ResultTruthy(res)
            THEN /\ ClientReturns
                 /\ UNCHANGED c_result
            ELSE /\ c_result' =
                      [probability |-> res.probability,
                       prediction |-> res.prediction,
                       amount |-> Get(c_tx, "amt", Get(c_payload, "amt", IntV(0))),
                       merchant |-> Get(c_tx, "merchant",
                                        Get(c_payload, "merchant", StrV("unknown")))]
                 /\ c_pc' = "display"
                 /\ UNCHANGED c_left
    /\ UNCHANGED <<now, c_health, expected_cols, c_tx, c_payload, c_shown>>
    /\ ClientDagUnchanged

\* main, display_result(result)
ClientDisplay ==
    /\ c_pc = "display"
    /\ LET out == display_result(c_result) IN
       /\ c_shown' = IF out.status = "nothing" THEN c_shown ELSE out.status
       /\ IF out.ok
          THEN ClientReturns
          ELSE /\ c_pc' = "crashed"
               /\ UNCHANGED c_left
    /\ UNCHANGED <<now, c_health, expected_cols, c_tx, c_payload, c_result, c_error>>
    /\ ClientDagUnchanged

\* The scoring service is redeployed between two predictions of a session:
\* from now on /health gives one reply, with the schema of the new model.
SchemaChanges ==
    /\ c_pc \in {"menu", "fetch"}
    /\ \E health \in HealthReplies :
         /\ env.health # {health}
         /\ env' = [env EXCEPT !.health = {health}]
    /\ UNCHANGED <<dagVars, alignVars, clientVars>>

ClientNext ==
    \/ ClientHealth \/ ClientChoose \/ ClientFetch \/ ClientPrepare
    \/ ClientPredict \/ ClientDisplay
    \/ SchemaChanges
    \/ Tick

Init ==
    /\ DagInit
    /\ ClientInit
    /\ env = AnyReply
    /\ al_raw = EmptyMapping
    /\ al_health = HealthReply(FALSE, FALSE, FALSE, <<>>, <<>>)
    /\ al_schema = <<>>
    /\ al_dag = NotCalled
    /\ al_cli = NotCalled
Next == DagNext
Spec == Init /\ [][Next]_vars

SpecClient == Init /\ [][ClientNext]_vars

\* ------------------------------------------------------------------------
\* The DAG against services that answer in one fixed way
\* ------------------------------------------------------------------------
\* The feed returns TxPlain, /health returns numeric ["amt"] and categorical
\* ["merchant"], the scorer returns probability 0.002 and prediction 0.
PlainReply ==
    Endpoints("plain",
              {HealthReply(TRUE, TRUE, TRUE, <<"amt">>, <<"merchant">>)},
              {ScoreReply("ok", FloatV(20), IntV(0))})

InitEndToEnd ==
    /\ DagInit
    /\ ClientInit
    /\ env = PlainReply
    /\ al_raw = EmptyMapping
    /\ al_health = HealthReply(FALSE, FALSE, FALSE, <<>>, <<>>)
    /\ al_schema = <<>>
    /\ al_dag = NotCalled
    /\ al_cli = NotCalled

SpecEndToEnd == InitEndToEnd /\ [][DagNext]_vars

\* The feed delivers records that lack fields: TxAnon or TxBare.
SparseReply ==
    Endpoints("sparse", HealthReplies, ScoreReplies)

InitSparse ==
    /\ DagInit
    /\ ClientInit
    /\ env = SparseReply
    /\ al_raw = EmptyMapping
    /\ al_health = HealthReply(FALSE, FALSE, FALSE, <<>>, <<>>)
    /\ al_schema = <<>>
    /\ al_dag = NotCalled
    /\ al_cli = NotCalled

SpecSparse == InitSparse /\ [][DagNext]_vars

\* ------------------------------------------------------------------------
\* Properties of the persisted table (specification Spec)
\* ------------------------------------------------------------------------
RowsOf(tid) == {i \in 1..Len(table) : table[i].transaction_id = tid}
CommitsOf(tid) ==
    {k \in 1..Len(commitLog) : commitLog[k].write.transaction_id = tid}
CommittedIds == {commitLog[k].write.transaction_id : k \in 1..Len(commitLog)}
MinOf(S) == CHOOSE x \in S : \A y \in S : x <= y
MaxOf(S) == CHOOSE x \in S : \A y \in S : x >= y
Committed(r) == \E k \in 1..Len(commitLog) : commitLog[k].run = r
SameFields(row, w) ==
    /\ row.transaction_id = w.transaction_id
    /\ row.amount = w.amount
    /\ row.merchant = w.merchant
    /\ row.fraud_probability = w.fraud_probability
    /\ row.prediction = w.prediction
\* run r commits in this step
Commits(r) == pc[r] = "commit" /\ pc'[r] = "alert"

\* C1: after any number of runs and any interleaving of their store_in_neon
\* steps, retries included, fraud_transactions holds at most one row per
\* transaction_id.
C1_OneRowPerTransactionId ==
    \A i, j \in 1..Len(table) :
        table[i].transaction_id = table[j].transaction_id => i = j

\* C1 witness: two different runs and a retried one have committed the same
\* transaction_id.
C1_Witness ==
    \E a, b, c \in 1..Len(commitLog) :
        /\ a < b /\ b < c
        /\ commitLog[a].run # commitLog[b].run
        /\ commitLog[b].run = commitLog[c].run
        /\ commitLog[a].write.transaction_id = commitLog[b].write.transaction_id
        /\ commitLog[b].write.transaction_id = commitLog[c].write.transaction_id
        /\ RowsOf(commitLog[a].write.transaction_id) # {}

\* C2: whatever the interleaving of the writes for one transaction_id, the
\* table holds exactly one row for it, and the row's amount, merchant,
\* fraud_probability and prediction are all those of the write committed
\* last.
C2_LastCommittedWins ==
    \A tid \in CommittedIds :
        /\ Cardinality(RowsOf(tid)) = 1
        /\ \A i \in RowsOf(tid) :
              SameFields(table[i], commitLog[MaxOf(CommitsOf(tid))].write)

\* C2 witness: two runs wrote the same transaction_id with different
\* probabilities, amounts and merchants, their transactions began within
\* the same second, and the second has now committed.
C2_Witness ==
    \E a, b \in 1..Len(commitLog) :
        /\ a < b
        /\ commitLog[a].run # commitLog[b].run
        /\ commitLog[a].write.transaction_id = commitLog[b].write.transaction_id
        /\ commitLog[a].write.fraud_probability # commitLog[b].write.fraud_probability
        /\ commitLog[a].write.amount # commitLog[b].write.amount
        /\ commitLog[a].write.merchant # commitLog[b].write.merchant
        /\ commitLog[b].at <= commitLog[a].at
        /\ MaxOf(CommitsOf(commitLog[a].write.transaction_id)) = b

\* C3: a transaction_id written once has updated_at null; written again
\* it keeps the inserted_at of the first write and has updated_at set; and
\* when the writes were identical the row holds the values of the first.
C3_IdempotentUpsert ==
    \A i \in 1..Len(table) :
        LET ks == CommitsOf(table[i].transaction_id) IN
        /\ ks # {}
        /\ table[i].inserted_at = IntV(commitLog[MinOf(ks)].at)
        /\ Cardinality(ks) = 1 => table[i].updated_at = Null
        /\ Cardinality(ks) >= 2 => table[i].updated_at.k = "int"
        /\ (\A k \in ks : commitLog[k].write = commitLog[MinOf(ks)].write)
              => SameFields(table[i], commitLog[MinOf(ks)].write)

\* C3 witness: the same write was committed twice, the second time later
\* than the first.
C3_Witness ==
    \E a, b \in 1..Len(commitLog) :
        /\ a < b
        /\ commitLog[a].write = commitLog[b].write
        /\ CommitsOf(commitLog[a].write.transaction_id) = {a, b}
        /\ commitLog[a].at < commitLog[b].at
        /\ \E i \in 1..Len(table) :
              /\ table[i].transaction_id = commitLog[a].write.transaction_id
              /\ table[i].updated_at = IntV(commitLog[b].at)

\* C4: a step never removes a row and never changes a row's inserted_at,
\* and it changes a row only when a run commits a write for that row's
\* transaction_id.
C4_WriteTouchesOnlyItsRow ==
    [][\A i \in 1..Len(table) :
          \E j \in 1..Len(table') :
             /\ table'[j].transaction_id = table[i].transaction_id
             /\ table'[j].inserted_at = table[i].inserted_at
             /\ \/ table'[j] = table[i]
                \/ \E r \in Runs :
                      /\ Commits(r)
                      /\ txn[r].write.transaction_id = table[i].transaction_id]_vars

\* C4 witness: the table holds two rows, one of them written twice and the
\* other one never updated.
C4_Witness ==
    \E i, j \in 1..Len(table) :
        /\ table[i].transaction_id # table[j].transaction_id
        /\ table[i].updated_at # Null
        /\ table[j].updated_at = Null
        /\ i < j

\* C5: the table (and its schema) changes only in the step in which a run
\* commits; every other step, the failure or abandonment of a task in
\* fetch_transaction, prepare_payload, predict_fraud or in store_in_neon
\* before the commit in particular, leaves every row as it was.
C5_FailureLeavesTable ==
    [][(table' # table \/ db_ready' # db_ready) => \E r \in Runs : Commits(r)]_vars

\* C5 witness: a run has failed inside store_in_neon with parameters that
\* were fit to be written, it never committed, and the table holds what
\* another run wrote.
C5_Witness ==
    \E r \in Runs :
        /\ pc[r] = "failed"
        /\ pred[r] # NoPred
        /\ store_args(tx[r], pred[r], now).ok
        /\ ~Committed(r)
        /\ Len(table) = 1
        /\ table[1].transaction_id # store_args(tx[r], pred[r], now).transaction_id

\* C9 (the statement of the spec): the probability predict_fraud returns and
\* the fraud_probability stored lie in [0, 1], the label in {0, 1}.
C9_ProbabilityInRange ==
    /\ \A r \in Runs :
          pc[r] \in {"store", "alter", "execute", "commit", "alert", "done"}
             => /\ pred[r].probability >= 0
                /\ pred[r].probability <= FloatUnit
                /\ pred[r].prediction \in {0, 1}
    /\ \A i \in 1..Len(table) :
          /\ table[i].fraud_probability >= 0
          /\ table[i].fraud_probability <= FloatUnit

\* C10: a run has alerted only after its write was committed and only for a
\* probability above the threshold; a run that went through store_in_neon
\* has alerted exactly when its probability is above the threshold, and the
\* row it committed is still in the table.
C10_AlertAfterCommit ==
    \A r \in Runs :
        /\ alerted[r] => Committed(r) /\ pred[r].probability > AlertThreshold
        /\ pc[r] = "done" =>
              /\ alerted[r] <=> pred[r].probability > AlertThreshold
              /\ Committed(r)
              /\ \A k \in 1..Len(commitLog) :
                    commitLog[k].run = r
                       => RowsOf(commitLog[k].write.transaction_id) # {}
        /\ pc[r] = "failed" /\ ~Committed(r) => ~alerted[r]

\* C10 witness: one run is done and has alerted, another is done with the
\* probability at the threshold and has not alerted.
C10_Witness ==
    \E r, q \in Runs :
        /\ pc[r] = "done" /\ alerted[r]
        /\ pc[q] = "done" /\ ~alerted[q]
        /\ pred[q].probability = AlertThreshold

\* The runs of the DAG and a failed task: were a failure to end the run at
\* once, a step in which a task of run r fails would leave r failed. It does
\* not hold: default_args has retries = 1, the scheduler runs the task again.
C14_FailureEndsRun ==
    [][\A r \in Runs : tries'[r] = tries[r] + 1 => pc'[r] = "failed"]_vars

\* the steps that take a run one position forward
C14_Forward ==
    {<<"idle", "fetch">>, <<"fetch", "prepare">>, <<"prepare", "predict">>,
     <<"predict", "store">>, <<"store", "alter">>, <<"alter", "execute">>,
     <<"execute", "commit">>,
     <<"commit", "alert">>, <<"alert", "done">>}

\* The runs of the DAG: the tasks of a run execute in the order fetch, align,
\* score, persist, each starting only after its predecessor returned its
\* output; a task that raises is run again by the scheduler while it has a
\* retry left (retries = 1), the later stages then follow the attempt that
\* succeeded; when the last attempt raises the run is failed for good, no
\* later stage executes and the run commits nothing more.
C14_StagesInOrder ==
    [][\A r \in Runs :
          /\ pc'[r] # pc[r] =>
                \/ <<pc[r], pc'[r]>> \in C14_Forward
                \/ /\ pc'[r] = "store"
                   /\ pc[r] \in {"alter", "execute", "commit", "alert"}
                   /\ tries'[r] = tries[r] + 1
                \/ pc'[r] = "failed" /\ tries[r] = retries
          /\ tries'[r] = tries[r] + 1 =>
                tries[r] < retries /\ pc'[r] = TaskStart(pc[r])
          /\ pc'[r] = "prepare" => tx'[r] # EmptyMapping
          /\ pc'[r] = "predict" => payload'[r] # EmptyMapping
          /\ pc'[r] = "store" => pred'[r] # NoPred
          /\ pc[r] = "failed" =>
                /\ pc'[r] = "failed"
                /\ Len(commitLog') > Len(commitLog)
                      => commitLog'[Len(commitLog')].run # r
          /\ Commits(r) =>
                /\ tx[r] # EmptyMapping /\ payload[r] # EmptyMapping
                /\ pred[r] # NoPred
      ]_vars

\* Such a run: one run has failed in fetch_transaction, with no retry left,
\* and has stored nothing, while the other run, whose fetch and align
\* succeeded, is at the second attempt of its score task.
C14_Witness ==
    \E r, q \in Runs :
        /\ pc[r] = "failed" /\ tx[r] = EmptyMapping /\ ~Committed(r)
        /\ pc[q] = "predict" /\ tries[q] = 1
        /\ payload[q] # EmptyMapping

\* ------------------------------------------------------------------------
\* Properties of the align step (specification SpecAlign)
\* ------------------------------------------------------------------------
Keys(mapping) == {f \in FieldNames : Has(mapping, f)}
Aligned(res) ==
    /\ res.ok
    /\ Keys(res.payload) = Range(res.columns)
    /\ \A f \in Keys(res.payload) : res.payload[f].k # "null"

\* C6 (the statement of the spec): for every raw transaction and every
\* expected schema the align step returns a payload whose keys are exactly
\* the fields of the schema and whose values are all non-null.
C6_AlignedPayload ==
    /\ al_dag.called => Aligned(al_dag)
    /\ al_cli.called => Aligned(al_cli)

\* the value C8 gives for unix_time
C8_Expected(current_time) ==
    IF AfterCutoff(current_time)
    THEN IntV(training_start + (SecondsOf(current_time) % year_seconds))
    ELSE IntV(SecondsOf(current_time))

C8_Applies(res) ==
    /\ res.called
    /\ al_raw["current_time"].k \in {"int", "big"}
    /\ "unix_time" \in Range(res.columns)

\* C8 (the statement of the spec): with current_time in raw and unix_time in
\* the schema, prepare_payload and prepare_data set unix_time to
\* 1577836800 + ((current_time // 1000) mod 31536000) when current_time is
\* after 1640995200000, else to current_time // 1000; for 1700000000000
\* that is 1577836800 + 28592000.
C8_UnixTimeRescaled ==
    /\ C8_Applies(al_dag) =>
          /\ al_dag.ok
          /\ al_dag.payload["unix_time"] = C8_Expected(al_raw["current_time"])
          /\ al_raw["current_time"] = BigV(1700, 0)
                => al_dag.payload["unix_time"] = IntV(1606428800)
    /\ C8_Applies(al_cli) =>
          /\ al_cli.ok
          /\ al_cli.payload["unix_time"] = C8_Expected(al_raw["current_time"])
          /\ al_raw["current_time"] = BigV(1700, 0)
                => al_cli.payload["unix_time"] = IntV(1606428800)

\* v is what the precedence "raw, else default table, else 0" gives field f
\* of the raw transaction; the fallback of trans_num is default_<seconds>
\* of some moment up to now.
C13_ByPrecedence(raw, f, v) ==
    IF Has(raw, f) /\ raw[f].k # "null" THEN v = raw[f]
    ELSE IF Has(DEFAULTS, f) THEN v = DEFAULTS[f]
    ELSE IF f = "trans_num"
    THEN \E t \in 0..now : v = StrV("default_" \o ToString(t))
    ELSE v = IntV(0)

\* C13 (the statement of the spec): every field of the schema, unix_time
\* and trans_date_trans_time of a record that brings its own values
\* included, has in the payload the raw value when it is non-null, else the
\* entry of the default table, else 0 (trans_num: a text made of the
\* wall-clock time).
C13_RawValueFirst ==
    \A res \in {al_dag, al_cli} :
        res.called /\ res.ok =>
            \A f \in Range(res.columns) : C13_ByPrecedence(al_raw, f, res.payload[f])

\* the payload res follows the precedence but for the two timestamp fields
C13_Resolved(res) ==
    LET from_stamp == Has(al_raw, "current_time") /\ "unix_time" \in Range(res.columns)
        seconds == IF from_stamp THEN res.payload["unix_time"] ELSE al_raw["unix_time"]
        formatted == /\ "trans_date_trans_time" \in Range(res.columns)
                     /\ (from_stamp \/ Has(al_raw, "unix_time"))
    IN  \A f \in Range(res.columns) :
            IF f = "unix_time" /\ from_stamp
            THEN IF AfterCutoff(al_raw["current_time"])
                 THEN /\ res.payload[f].k = "int"
                      /\ res.payload[f].n >= training_start
                      /\ res.payload[f].n < training_start + year_seconds
                 ELSE res.payload[f] = FloorDiv1000(al_raw["current_time"])
            ELSE IF f = "trans_date_trans_time" /\ formatted
            THEN res.payload[f] = IF FormatTimestamp(seconds).ok
                                  THEN FormatTimestamp(seconds).text
                                  ELSE DEFAULTS["trans_date_trans_time"]
            ELSE C13_ByPrecedence(al_raw, f, res.payload[f])

\* C13 (amended): in the payload the align step returns, unix_time is the
\* seconds value computed from current_time whenever the record has a
\* current_time and the schema expects unix_time, whatever unix_time the
\* record brings; trans_date_trans_time is the formatted unix_time (the
\* default literal when the conversion fails) whenever a unix_time is at
\* hand and the schema expects the field, whatever trans_date_trans_time
\* the record brings; every other field has the raw value when it is
\* non-null, else the entry of the default table, else 0 (trans_num:
\* default_<seconds of the wall clock>).
C13_RawValueFirstButTimestamps ==
    /\ al_dag.called /\ al_dag.ok => C13_Resolved(al_dag)
    /\ al_cli.called /\ al_cli.ok => C13_Resolved(al_cli)

\* C13 witness: a record with its own unix_time and trans_date_trans_time
\* and with a current_time went through prepare_payload and prepare_data
\* under schemas expecting both fields, and neither payload has the
\* record's own two values.
C13_Witness ==
    /\ al_dag.called /\ al_dag.ok /\ al_cli.called /\ al_cli.ok
    /\ Has(al_raw, "current_time")
    /\ al_raw["unix_time"] = IntV(1600000000)
    /\ al_raw["trans_date_trans_time"] = StrV("2019-01-01 00:00:00")
    /\ {"unix_time", "trans_date_trans_time", "trans_num", "amt"} \subseteq Range(al_cli.columns)
    /\ al_dag.payload["unix_time"] # al_raw["unix_time"]
    /\ al_dag.payload["trans_date_trans_time"] # al_raw["trans_date_trans_time"]
    /\ al_cli.payload["unix_time"] # al_raw["unix_time"]
    /\ al_cli.payload["trans_date_trans_time"] # al_raw["trans_date_trans_time"]
    /\ al_cli.payload["amt"] = al_raw["amt"]

\* ------------------------------------------------------------------------
\* Properties of the client (specification SpecClient)
\* ------------------------------------------------------------------------
\* The order of the stages in single_prediction: prepare_data runs only on
\* a fetched transaction, predict_fraud only on a payload, display_result
\* only on a result; a fetch or a score that failed (None) takes the client
\* back to the loop or the menu with transaction, payload and result as
\* they were.
ClientStageStep ==
    /\ c_pc' # c_pc /\ c_pc' = "prepare" => c_pc = "fetch" /\ c_tx' # EmptyMapping
    /\ c_pc' # c_pc /\ c_pc' = "predict" => c_pc = "prepare" /\ c_payload' # EmptyMapping
    /\ c_pc' # c_pc /\ c_pc' = "display" => c_pc = "predict" /\ c_result' # ClientNoResult
    /\ c_pc \in {"fetch", "predict"} /\ c_pc' \in {"fetch", "menu"} =>
          UNCHANGED <<c_tx, c_payload, c_result, c_shown>>

ClientStagesInOrder == [][ClientStageStep]_vars

\* C14 (the statement of the spec), for the run of the client: the stages
\* execute in the order fetch, align, score, each on the output of its
\* predecessor, and a failure of the Fetcher or of the Scorer (the step in
\* which fetch_transaction or predict_fraud reports its exception) ends the
\* run as failed and is surfaced to the caller, not swallowed: main ends
\* with the exception, as it does for one of prepare_data, and does not go
\* on with the next prediction or the menu.
C14_FailureSurfaced ==
    [][/\ ClientStageStep
       /\ (/\ c_pc \in {"fetch", "predict"}
           /\ c_left' # c_left
           /\ c_error' # "none") => c_pc' = "crashed"
      ]_vars

\* C7 (the statement of the spec): a failed schema discovery never ends the
\* pipeline, alignment goes on with the fallback schema; after a discovery
\* that succeeded the schema is numeric ++ categorical.
C7_DiscoveryFailureFallsBack ==
    c_pc # "start" =>
       IF c_health.ok /\ c_health.has_numeric /\ c_health.has_categorical
       THEN expected_cols = c_health.numeric \o c_health.categorical
       ELSE c_pc # "unavailable" /\ expected_cols = FallbackSchema

\* the schema a discovery would give for the reply health, the fallback
\* when the discovery fails
C15_SchemaFor(health) ==
    IF get_expected_columns(health).none THEN FallbackSchema
    ELSE get_expected_columns(health).columns

\* C15 (the statement of the spec): a run aligns against a schema
\* discovered during that run or against the fallback, so a change of the
\* schema between two runs is seen by the second: the payload
\* single_prediction has built has the fields of a schema /health gives
\* during this prediction, or those of the fallback.
C15_SchemaOfThisRun ==
    c_pc = "predict" =>
        \E health \in env.health : Keys(c_payload) = Range(C15_SchemaFor(health))

\* ------------------------------------------------------------------------
\* One run from the feed to the table (specification SpecEndToEnd)
\* ------------------------------------------------------------------------
\* C11 (the statement of the spec): with the feed returning the record
\* amt 250.0, merchant "Acme", trans_num "tx_42", /health returning numeric
\* [amt] and categorical [merchant] and the scorer returning 0.002 and 0, a
\* run sends the scorer a payload whose keys are exactly amt and merchant,
\* and once it is done the table holds exactly one row, tx_42 with amount
\* 250.0, merchant Acme, fraud_probability 0.002 and prediction 0, and the
\* run has alerted.
C11_EndToEnd ==
    \A r \in Runs :
        /\ pc[r] \in {"store", "alter", "execute", "commit", "alert", "done"} =>
              Keys(payload[r]) = {"amt", "merchant"}
        /\ pc[r] = "done" =>
              /\ Len(table) = 1
              /\ table[1].transaction_id = StrV("tx_42")
              /\ table[1].amount = 2500000
              /\ table[1].merchant = "Acme"
              /\ table[1].fraud_probability = 20
              /\ table[1].prediction = 0
              /\ alerted[r]

\* ------------------------------------------------------------------------
\* What store_in_neon writes and what was scored (specification Spec)
\* ------------------------------------------------------------------------
\* C12 (the statement of the spec): the transaction_id a run writes is the
\* trans_num of the payload it sent to the scorer, the value alignment
\* filled in for a missing trans_num included.
C12_StoredIdIsPayloadId ==
    \A k \in 1..Len(commitLog) :
        commitLog[k].write.transaction_id = payload[commitLog[k].run]["trans_num"]

\* ------------------------------------------------------------------------
\* Records that lack fields (specification SpecSparse)
\* ------------------------------------------------------------------------
\* C16 (the statement of the spec): two runs for different transactions
\* that both lack trans_num, sequential or overlapping, write different
\* identifiers and end up as two distinct rows of the table.
C16_FallbackIdUnique ==
    \A a, b \in 1..Len(commitLog) :
        LET r == commitLog[a].run
            q == commitLog[b].run
        IN  /\ r # q
            /\ tx[r] # tx[q]
            /\ ~Truthy(Get(tx[r], "trans_num", Null))
            /\ ~Truthy(Get(tx[q], "trans_num", Null))
            => /\ commitLog[a].write.transaction_id # commitLog[b].write.transaction_id
               /\ RowsOf(commitLog[a].write.transaction_id)
                     # RowsOf(commitLog[b].write.transaction_id)

\* C17 (the statement of the spec): for every run that commits, the stored
\* amount is the amt and the stored merchant is the merchant (cut to 255
\* characters) of the payload the run sent to the scorer, also when the raw
\* record lacks amt or merchant.
C17_StoredIsScored ==
    \A k \in 1..Len(commitLog) :
        LET sent == payload[commitLog[k].run]
            name == PyStr(sent["merchant"])
        IN  /\ ToFloat(sent["amt"]).ok
            /\ commitLog[k].write.amount = ToFloat(sent["amt"]).val
            /\ commitLog[k].write.merchant =
                  IF Len(name) > MerchantCap THEN SubSeq(name, 1, MerchantCap) ELSE name

============================================================================
